---- MODULE Spec2Model ----
(***************************************************************************)
(* A model of app.py, the CalAI server: the /analyze and /reanalyze        *)
(* handlers (fence stripping, json.loads, stamping of the result), and the *)
(* in-memory daily store behind /save_meal, /get_daily_data and            *)
(* /get_all_dates.                                                         *)
(*                                                                         *)
(* Texts (Python str) are sequences of one-character strings.  JSON values *)
(* (what json.loads returns, what request.json holds) are tagged records:  *)
(*   Num(n), Str(s), Arr(a), Obj(o), Null, Bool(b)                         *)
(* where an object is a function from keys (texts) to values.              *)
(***************************************************************************)
EXTENDS Integers, Sequences, FiniteSets, TLC

VARIABLES
    calorie_data,   \* app.py:23  the store: date text -> daily record
    uploads,        \* the files of app.config['UPLOAD_FOLDER']
    reply,          \* response.text of the last model call, and the call's file and meal type
    result,         \* json.loads(...) of the last model call, as a parse result
    http,           \* the last HTTP response: [op, status, body]
    saved,          \* history: date text -> the bodies /save_meal appended for it
    threads,        \* threaded server: each worker's position in save_meal
    dictId,         \* threaded server: identity of the dict bound to each date
    overlapped,     \* threaded server: two save_meal calls were in flight together
    probe           \* the extractor applied to one drawn text: its input and output

vars == <<calorie_data, uploads, reply, result, http, saved, threads, dictId,
          overlapped, probe>>

---------------------------------------------------------------------------
(* Texts *)

\* str.strip() with no argument removes these (of the characters used here)
PyWhitespace == {" ", "\n", "\t", "\r"}

RECURSIVE LStrip(_)
LStrip(s) ==
    IF Len(s) > 0 /\ Head(s) \in PyWhitespace THEN LStrip(Tail(s)) ELSE s

RECURSIVE RStrip(_)
RStrip(s) ==
    IF Len(s) > 0 /\ s[Len(s)] \in PyWhitespace
    THEN RStrip(SubSeq(s, 1, Len(s) - 1))
    ELSE s

\* str.strip()
Strip(s) == RStrip(LStrip(s))

\* str.startswith(p)
StartsWith(s, p) == Len(s) >= Len(p) /\ SubSeq(s, 1, Len(p)) = p

\* str.endswith(p)
EndsWith(s, p) == Len(s) >= Len(p) /\ SubSeq(s, Len(s) - Len(p) + 1, Len(s)) = p

\* the grave accent U+0060, the character of a markdown fence (the TLA+ lexer
\* accepts none inside a string, so the character is named)
BQ == "GRAVE"

\* app.py:91, the 7-character opening marker: three grave accents and json
FenceOpen == <<BQ, BQ, BQ, "j", "s", "o", "n">>

\* app.py:93, the 3-character closing marker: three grave accents
FenceClose == <<BQ, BQ, BQ>>

\* s[7:]
DropOpen(s) == SubSeq(s, 8, Len(s))

\* s[:-3]
DropClose(s) == SubSeq(s, 1, Len(s) - 3)

\* ExtractText without the first strip()
ExtractNoTrim(raw) ==
    LET b == IF StartsWith(raw, FenceOpen) THEN DropOpen(raw) ELSE raw
        c == IF EndsWith(b, FenceClose) THEN DropClose(b) ELSE b
    IN  Strip(c)

\* app.py:90-96, the text handed to json.loads
ExtractText(raw) ==
    LET a == Strip(raw)
        b == IF StartsWith(a, FenceOpen) THEN DropOpen(a) ELSE a
        c == IF EndsWith(b, FenceClose) THEN DropClose(b) ELSE b
    IN  Strip(c)

---------------------------------------------------------------------------
(* JSON values and json.loads *)

Num(n) == [k |-> "num", n |-> n]
Str(s) == [k |-> "str", s |-> s]
Arr(a) == [k |-> "arr", a |-> a]
Obj(o) == [k |-> "obj", o |-> o]
Null == [k |-> "null"]
Bool(b) == [k |-> "bool", b |-> b]

EmptyMap == [x \in {} |-> x]

IsObj(v) == v.k = "obj"
IsNum(v) == v.k = "num"

\* json.decoder WHITESPACE: [ \t\n\r]*
JsonWs == {" ", "\t", "\n", "\r"}

\* characters json.loads (strict) refuses inside a string
ControlChars == {"\n", "\t", "\r"}

Digits == {"0", "1", "2", "3", "4", "5", "6", "7", "8", "9"}

DigitVal(c) ==
    CASE c = "0" -> 0 [] c = "1" -> 1 [] c = "2" -> 2 [] c = "3" -> 3
      [] c = "4" -> 4 [] c = "5" -> 5 [] c = "6" -> 6 [] c = "7" -> 7
      [] c = "8" -> 8 [] c = "9" -> 9

UpperLetters ==
    <<"A", "B", "C", "D", "E", "F", "G", "H", "I", "J", "K", "L", "M",
      "N", "O", "P", "Q", "R", "S", "T", "U", "V", "W", "X", "Y", "Z">>
LowerLetters ==
    <<"a", "b", "c", "d", "e", "f", "g", "h", "i", "j", "k", "l", "m",
      "n", "o", "p", "q", "r", "s", "t", "u", "v", "w", "x", "y", "z">>

\* ord(c) of "-", "_", the digits and the letters
CodePoint(c) ==
    IF c = "-" THEN 45
    ELSE IF c = "_" THEN 95
    ELSE IF c \in Digits THEN 48 + DigitVal(c)
    ELSE IF \E n \in 1..26 : UpperLetters[n] = c
         THEN 64 + (CHOOSE n \in 1..26 : UpperLetters[n] = c)
    ELSE 96 + (CHOOSE n \in 1..26 : LowerLetters[n] = c)

Fail == [ok |-> FALSE]
Ok(v, e) == [ok |-> TRUE, val |-> v, end |-> e]

\* t[i:i+1] == c
At(t, i, c) == i <= Len(t) /\ t[i] = c

RECURSIVE SkipWs(_, _)
SkipWs(t, i) == IF i <= Len(t) /\ t[i] \in JsonWs THEN SkipWs(t, i + 1) ELSE i

\* the end of the run of digits that starts at i
RECURSIVE DigitsEnd(_, _)
DigitsEnd(t, i) == IF i <= Len(t) /\ t[i] \in Digits THEN DigitsEnd(t, i + 1) ELSE i

RECURSIVE DigitsVal(_, _, _, _)
DigitsVal(t, i, e, acc) ==
    IF i >= e THEN acc ELSE DigitsVal(t, i + 1, e, acc * 10 + DigitVal(t[i]))

RECURSIVE Pow10(_)
Pow10(n) == IF n = 0 THEN 1 ELSE 10 * Pow10(n - 1)

\* NUMBER_RE  (0|[1-9]\d*)([eE]\d+)?  at i, where t[i] is a digit; the sign,
\* the fraction and the exponent's sign use characters no text here contains
ScanNumber(t, i) ==
    LET ie == IF t[i] = "0" THEN i + 1 ELSE DigitsEnd(t, i)
        n  == DigitsVal(t, i, ie, 0)
        xe == IF At(t, ie, "e") \/ At(t, ie, "E") THEN DigitsEnd(t, ie + 1) ELSE ie
    IN  IF xe > ie + 1
        THEN Ok(Num(n * Pow10(DigitsVal(t, ie + 1, xe, 0))), xe)
        ELSE Ok(Num(n), ie)

\* py_scanstring from i, the position after the opening quote (no escapes:
\* no text here contains a backslash)
RECURSIVE ScanString(_, _, _)
ScanString(t, i, acc) ==
    IF i > Len(t) THEN Fail
    ELSE IF t[i] = "\"" THEN Ok(Str(acc), i + 1)
    ELSE IF t[i] \in ControlChars THEN Fail
    ELSE ScanString(t, i + 1, Append(acc, t[i]))

\* the literals null, true, false
ScanLiteral(t, i, word, v) ==
    IF i + Len(word) - 1 <= Len(t) /\ SubSeq(t, i, i + Len(word) - 1) = word
    THEN Ok(v, i + Len(word))
    ELSE Fail

RECURSIVE ScanOnce(_, _)
RECURSIVE ScanArray(_, _, _)
RECURSIVE ScanObject(_, _, _)

\* JSONArray's loop: a value is expected at i; acc holds the values so far
ScanArray(t, i, acc) ==
    LET v == ScanOnce(t, i) IN
    IF ~v.ok THEN Fail
    ELSE LET j == SkipWs(t, v.end)
             vals == Append(acc, v.val)
         IN  IF At(t, j, "]") THEN Ok(Arr(vals), j + 1)
             ELSE IF At(t, j, ",") THEN ScanArray(t, SkipWs(t, j + 1), vals)
             ELSE Fail

\* JSONObject's loop: a key's opening quote is expected at i; acc holds the
\* pairs so far, a repeated key keeps its last value
ScanObject(t, i, acc) ==
    IF ~At(t, i, "\"") THEN Fail
    ELSE LET key == ScanString(t, i + 1, <<>>) IN
         IF ~key.ok THEN Fail
         ELSE LET c == SkipWs(t, key.end) IN
              IF ~At(t, c, ":") THEN Fail
              ELSE LET v == ScanOnce(t, SkipWs(t, c + 1)) IN
                   IF ~v.ok THEN Fail
                   ELSE LET j == SkipWs(t, v.end)
                            pairs == (key.val.s :> v.val) @@ acc
                        IN  IF At(t, j, "}") THEN Ok(Obj(pairs), j + 1)
                            ELSE IF At(t, j, ",")
                                 THEN ScanObject(t, SkipWs(t, j + 1), pairs)
                            ELSE Fail

\* scanner.py_make_scanner _scan_once
ScanOnce(t, i) ==
    IF i > Len(t) THEN Fail
    ELSE LET c == t[i] IN
         CASE c = "\"" -> ScanString(t, i + 1, <<>>)
           [] c = "{" ->
                LET j == SkipWs(t, i + 1) IN
                IF At(t, j, "}") THEN Ok(Obj(EmptyMap), j + 1)
                ELSE ScanObject(t, j, EmptyMap)
           [] c = "[" ->
                LET j == SkipWs(t, i + 1) IN
                IF At(t, j, "]") THEN Ok(Arr(<<>>), j + 1)
                ELSE ScanArray(t, j, <<>>)
           [] c = "n" -> ScanLiteral(t, i, <<"n", "u", "l", "l">>, Null)
           [] c = "t" -> ScanLiteral(t, i, <<"t", "r", "u", "e">>, Bool(TRUE))
           [] c = "f" -> ScanLiteral(t, i, <<"f", "a", "l", "s", "e">>, Bool(FALSE))
           [] c \in Digits -> ScanNumber(t, i)
           [] OTHER -> Fail

\* json.loads(text): JSONDecoder.decode; a failure is JSONDecodeError
JsonLoads(text) ==
    LET v == ScanOnce(text, SkipWs(text, 1)) IN
    IF ~v.ok THEN Fail
    ELSE IF SkipWs(text, v.end) # Len(text) + 1 THEN Fail
    ELSE Ok(v.val, Len(text) + 1)

---------------------------------------------------------------------------
(* Bounds *)

\* /save_meal calls that reach the store in one run of the store handlers
MaxStoreSaves == 3

\* /save_meal calls that reach the store in one run of the whole server
MaxSaves == 2

\* /save_meal calls started in one run of the threaded server
MaxThreadedSaves == 2

\* length of the JSON texts drawn for the extractor
MaxJsonLen == 4

---------------------------------------------------------------------------
(* Names and inputs *)

K_items == <<"i", "t", "e", "m", "s">>
K_total_calories == <<"t", "o", "t", "a", "l", "_", "c", "a", "l", "o", "r", "i", "e", "s">>
K_total_protein == <<"t", "o", "t", "a", "l", "_", "p", "r", "o", "t", "e", "i", "n">>
K_total_carbs == <<"t", "o", "t", "a", "l", "_", "c", "a", "r", "b", "s">>
K_total_fat == <<"t", "o", "t", "a", "l", "_", "f", "a", "t">>
K_total_fiber == <<"t", "o", "t", "a", "l", "_", "f", "i", "b", "e", "r">>
K_image_path == <<"i", "m", "a", "g", "e", "_", "p", "a", "t", "h">>
K_meal_type == <<"m", "e", "a", "l", "_", "t", "y", "p", "e">>
K_timestamp == <<"t", "i", "m", "e", "s", "t", "a", "m", "p">>
K_date == <<"d", "a", "t", "e">>
K_name == <<"n", "a", "m", "e">>
K_calories == <<"c", "a", "l", "o", "r", "i", "e", "s">>

\* "2024-01-01", "2024-02-10", "2024-03-15"
D0101 == <<"2", "0", "2", "4", "-", "0", "1", "-", "0", "1">>
D0210 == <<"2", "0", "2", "4", "-", "0", "2", "-", "1", "0">>
D0315 == <<"2", "0", "2", "4", "-", "0", "3", "-", "1", "5">>

\* the dates a client names, and the days datetime.now() may fall on
Dates == {D0101, D0210, D0315}

\* the fields save_meal adds, in the order of its statements
TotalFields ==
    <<"total_calories", "total_protein", "total_carbs", "total_fat", "total_fiber">>

FieldKey(f) ==
    CASE f = "total_calories" -> K_total_calories
      [] f = "total_protein"  -> K_total_protein
      [] f = "total_carbs"    -> K_total_carbs
      [] f = "total_fat"      -> K_total_fat
      [] f = "total_fiber"    -> K_total_fiber

\* an object from a sequence of <<key, value>> pairs
RECURSIVE PairsToMap(_)
PairsToMap(ps) ==
    IF ps = <<>> THEN EmptyMap
    ELSE (ps[Len(ps)][1] :> ps[Len(ps)][2]) @@ PairsToMap(SubSeq(ps, 1, Len(ps) - 1))

\* one item of the shape the prompt asks for (name and calories kept)
AppleItem == Obj(PairsToMap(<< <<K_name, Str(<<"a">>)>>, <<K_calories, Num(9)>> >>))

\* a result of the shape the prompt asks for; its total_calories is not the
\* sum of its items' calories
GoodMeal ==
    Obj(PairsToMap(<< <<K_items, Arr(<<AppleItem>>)>>,
                      <<K_total_calories, Num(5)>>, <<K_total_protein, Num(1)>>,
                      <<K_total_carbs, Num(2)>>, <<K_total_fat, Num(3)>>,
                      <<K_total_fiber, Num(4)>> >>))

\* a result without items and without total_fiber
PartialMeal ==
    Obj(PairsToMap(<< <<K_total_calories, Num(7)>>, <<K_total_protein, Num(2)>>,
                      <<K_total_carbs, Num(1)>>, <<K_total_fat, Num(1)>> >>))

\* a result whose total_protein is the string "1"
StringMeal ==
    Obj(PairsToMap(<< <<K_items, Arr(<<>>)>>,
                      <<K_total_calories, Num(6)>>, <<K_total_protein, Str(<<"1">>)>>,
                      <<K_total_carbs, Num(2)>>, <<K_total_fat, Num(3)>>,
                      <<K_total_fiber, Num(4)>> >>))

Meals == {GoodMeal, PartialMeal, StringMeal}

\* d[key] = v
DictSet(d, key, v) == Obj((key :> v) @@ d.o)

\* the bodies posted to /save_meal: a result with a date, one without, or a
\* JSON array
SaveBodies ==
    {DictSet(m, K_date, Str(d)) : m \in Meals, d \in Dates}
        \cup {GoodMeal, Arr(<<>>)}

---------------------------------------------------------------------------
(* The daily store: save_meal, get_daily_data, get_all_dates *)

\* dict.get(key, default)
DictGet(d, key, default) == IF key \in DOMAIN d.o THEN d.o[key] ELSE default

\* app.py:178-185
NewRecord ==
    [meals |-> <<>>, total_calories |-> 0, total_protein |-> 0,
     total_carbs |-> 0, total_fat |-> 0, total_fiber |-> 0]

\* app.py:198-205
DefaultRecord ==
    [meals |-> <<>>, total_calories |-> 0, total_protein |-> 0,
     total_carbs |-> 0, total_fat |-> 0, total_fiber |-> 0]

\* int + v is defined for a number and for a bool
CanAdd(v) == v.k \in {"num", "bool"}
NumOf(v) == IF v.k = "bool" THEN (IF v.b THEN 1 ELSE 0) ELSE v.n

\* app.py:175
RequestDate(data, today) == DictGet(data, K_date, Str(today)).s

\* app.py:178, calorie_data[date] = {...}
CreateRecord(store, date) == (date :> NewRecord) @@ store

\* AppendMeal as list.insert(0, data)
InsertMealFirst(meals, data) == <<data>> \o meals

\* app.py:187, list.append
AppendMeal(meals, data) == Append(meals, data)

\* app.py:188-192, the value read by  calorie_data[date][f] += ...
ReadTotal(rec, f) == rec[f]

\* app.py:188-192, the right-hand side data.get(f, 0)
Addend(data, f) == DictGet(data, FieldKey(f), Num(0))

\* AddedTotal as  =  in place of  +=
AssignedTotal(tmp, v) == NumOf(v)

\* app.py:188-192, the value stored by  calorie_data[date][f] += ...
AddedTotal(tmp, v) == tmp + NumOf(v)

\* app.py:188-192 from the i-th statement on; a TypeError ends the handler
\* with the statements before it done
RECURSIVE AddTotals(_, _, _)
AddTotals(rec, data, i) ==
    IF i > Len(TotalFields) THEN [rec |-> rec, raised |-> FALSE]
    ELSE LET f == TotalFields[i]
             v == Addend(data, f)
         IN  IF CanAdd(v)
             THEN AddTotals([rec EXCEPT ![f] = AddedTotal(ReadTotal(rec, f), v)],
                            data, i + 1)
             ELSE [rec |-> rec, raised |-> TRUE]

\* app.py:173-194 on a JSON object
SaveObject(store, data, today) ==
    LET date == RequestDate(data, today)
        s1 == IF date \notin DOMAIN store THEN CreateRecord(store, date) ELSE store
        r1 == [s1[date] EXCEPT !.meals = AppendMeal(@, data)]
        r2 == AddTotals(r1, data, 1)
    IN  [store |-> [s1 EXCEPT ![date] = r2.rec],
         date  |-> date,
         resp  |-> IF r2.raised
                   THEN [op |-> "save_meal", status |-> 500,
                         body |-> [error |-> "TypeError"]]
                   ELSE [op |-> "save_meal", status |-> 200,
                         body |-> [success |-> TRUE, date |-> date]]]

\* the number of meals the store holds
RECURSIVE MealCount(_)
MealCount(store) ==
    IF DOMAIN store = {} THEN 0
    ELSE LET d == CHOOSE x \in DOMAIN store : TRUE
         IN  Len(store[d].meals)
             + MealCount([x \in DOMAIN store \ {d} |-> store[x]])

\* the number of bodies a history holds
RECURSIVE MealCountOf(_)
MealCountOf(hist) ==
    IF DOMAIN hist = {} THEN 0
    ELSE LET d == CHOOSE x \in DOMAIN hist : TRUE
         IN  Len(hist[d]) + MealCountOf([x \in DOMAIN hist \ {d} |-> hist[x]])

\* history: the body appended for the date
Remember(hist, date, data) ==
    IF date \in DOMAIN hist
    THEN [hist EXCEPT ![date] = Append(@, data)]
    ELSE (date :> <<data>>) @@ hist

\* the handlers of the store leave the rest alone
AnalysisIdle ==
    UNCHANGED <<uploads, reply, result, threads, dictId, overlapped, probe>>

\* POST /save_meal, app.py:172-194, with a body of bodies; the day
\* datetime.now() falls on matters only to a body without a date
SaveMealOf(maxSaves, bodies) ==
    /\ MealCount(calorie_data) < maxSaves
    /\ \E data \in bodies :
       \E today \in IF IsObj(data) /\ K_date \notin DOMAIN data.o THEN Dates ELSE {D0101} :
         IF ~IsObj(data)
         THEN \* data.get raises AttributeError at app.py:175
              /\ http' = [op |-> "save_meal", status |-> 500,
                          body |-> [error |-> "AttributeError"]]
              /\ UNCHANGED <<calorie_data, saved>>
         ELSE LET r == SaveObject(calorie_data, data, today) IN
              /\ calorie_data' = r.store
              /\ http' = r.resp
              /\ saved' = Remember(saved, r.date, data)
    /\ AnalysisIdle

\* GetOrDefault as calorie_data.setdefault(date, {...})
GetSetDefault(store, date) ==
    [data  |-> IF date \in DOMAIN store THEN store[date] ELSE DefaultRecord,
     store |-> IF date \in DOMAIN store THEN store ELSE (date :> DefaultRecord) @@ store]

\* calorie_data.get(date, {...}), app.py:198-205: what it returns and the
\* store it leaves
GetOrDefault(store, date) ==
    [data  |-> IF date \in DOMAIN store THEN store[date] ELSE DefaultRecord,
     store |-> store]

\* GET /get_daily_data/<date>, app.py:196-206
GetDailyData ==
    /\ \E date \in Dates :
         LET g == GetOrDefault(calorie_data, date) IN
         /\ calorie_data' = g.store
         /\ http' = [op |-> "get_daily_data", arg |-> date, status |-> 200,
                     body |-> g.data]
    /\ UNCHANGED saved
    /\ AnalysisIdle


\* a < b on str: the first differing character decides, a proper prefix is less
RECURSIVE TextLess(_, _)
TextLess(a, b) ==
    IF b = <<>> THEN FALSE
    ELSE IF a = <<>> THEN TRUE
    ELSE IF Head(a) = Head(b) THEN TextLess(Tail(a), Tail(b))
    ELSE CodePoint(Head(a)) < CodePoint(Head(b))

\* sorted(keys): ascending
RECURSIVE SortedAsc(_)
SortedAsc(S) ==
    IF S = {} THEN <<>>
    ELSE LET m == CHOOSE x \in S : \A y \in S : ~TextLess(y, x)
         IN  <<m>> \o SortedAsc(S \ {m})

\* SortedReverse as sorted(keys)
SortedNoReverse(S) == SortedAsc(S)

\* sorted(keys, reverse=True), app.py:210
RECURSIVE SortedReverse(_)
SortedReverse(S) ==
    IF S = {} THEN <<>>
    ELSE LET m == CHOOSE x \in S : \A y \in S : ~TextLess(x, y)
         IN  <<m>> \o SortedReverse(S \ {m})

\* GET /get_all_dates, app.py:208-211
GetAllDates ==
    /\ http' = [op |-> "get_all_dates", status |-> 200,
                body |-> SortedReverse(DOMAIN calorie_data)]
    /\ UNCHANGED <<calorie_data, saved>>
    /\ AnalysisIdle

---------------------------------------------------------------------------
(* analyze_food and reanalyze_food *)

\* str.lower()
Lower(s) ==
    [i \in 1..Len(s) |->
        IF \E n \in 1..26 : UpperLetters[n] = s[i]
        THEN LowerLetters[CHOOSE n \in 1..26 : UpperLetters[n] = s[i]]
        ELSE s[i]]

\* the text after the last occurrence of c (s itself when there is none):
\* s.rsplit(c, 1)[-1], os.path.basename for c = "/"
RECURSIVE AfterLast(_, _)
AfterLast(s, c) ==
    IF c \notin {s[i] : i \in 1..Len(s)} THEN s
    ELSE AfterLast(Tail(s), c)

\* app.py:25
ALLOWED_EXTENSIONS ==
    {<<"p", "n", "g">>, <<"j", "p", "g">>, <<"j", "p", "e", "g">>, <<"w", "e", "b", "p">>}

\* app.py:27-28
allowed_file(filename) ==
    /\ "." \in {filename[i] : i \in 1..Len(filename)}
    /\ Lower(AfterLast(filename, ".")) \in ALLOWED_EXTENSIONS

\* "_".join(s.split()) on a text that neither starts nor ends with whitespace
RECURSIVE JoinWords(_)
JoinWords(s) ==
    IF s = <<>> THEN <<>>
    ELSE IF Head(s) \in PyWhitespace THEN <<"_">> \o JoinWords(LStrip(s))
    ELSE <<Head(s)>> \o JoinWords(Tail(s))

\* werkzeug's _filename_ascii_strip_re keeps [A-Za-z0-9_.-]
SafeChars ==
    {UpperLetters[n] : n \in 1..26} \cup {LowerLetters[n] : n \in 1..26}
        \cup Digits \cup {"_", ".", "-"}

RECURSIVE StripDots(_)
StripDots(s) ==
    IF Len(s) > 0 /\ Head(s) \in {".", "_"} THEN StripDots(Tail(s))
    ELSE IF Len(s) > 0 /\ s[Len(s)] \in {".", "_"}
         THEN StripDots(SubSeq(s, 1, Len(s) - 1))
    ELSE s

\* werkzeug.utils.secure_filename on ASCII text: the separator becomes a
\* space, runs of whitespace become "_", other characters are dropped, and
\* leading and trailing "." and "_" are stripped
secure_filename(name) ==
    LET spaced == [i \in 1..Len(name) |-> IF name[i] = "/" THEN " " ELSE name[i]]
        joined == JoinWords(Strip(spaced))
    IN  StripDots(SelectSeq(joined, LAMBDA c : c \in SafeChars))

\* datetime.now(): strftime('%Y%m%d_%H%M%S') and isoformat() of one instant
NowStamp == <<"2", "0", "2", "4", "0", "1", "0", "1", "_", "1", "2", "0", "0", "0", "0">>
NowIso ==
    <<"2", "0", "2", "4", "-", "0", "1", "-", "0", "1", "T", "1", "2", ":", "0", "0", ":", "0", "0">>

\* app.py:55
StoredName(filename) == secure_filename(NowStamp \o <<"_">> \o filename)

\* url_for('uploaded_file', filename=filename, _external=True), served from
\* the host "h"
UrlRoot ==
    <<"h", "t", "t", "p", ":", "/", "/", "h", "/", "u", "p", "l", "o", "a", "d", "s", "/">>
url_for(filename) == UrlRoot \o filename

T_snack == <<"s", "n", "a", "c", "k">>
T_lunch == <<"l", "u", "n", "c", "h">>

\* the file names a client uploads: "b/c.PNG", "a.txt", "a", ""
UploadNames ==
    {<<"b", "/", "c", ".", "P", "N", "G">>, <<"a", ".", "t", "x", "t">>, <<"a">>, <<>>}

Absent == [k |-> "absent"]

\* the meal_type a client sends, if any
MealTypes == {Absent, Str(T_lunch)}

\* json.dumps of a value, without spaces (the model's replies are built
\* from it)
RECURSIVE NumText(_)
NumText(n) ==
    IF n < 10 THEN <<CHOOSE c \in Digits : DigitVal(c) = n>>
    ELSE NumText(n \div 10) \o <<CHOOSE c \in Digits : DigitVal(c) = n % 10>>

RECURSIVE TextOf(_)
RECURSIVE JoinTexts(_)
JoinTexts(ts) ==
    IF ts = <<>> THEN <<>>
    ELSE IF Len(ts) = 1 THEN ts[1]
    ELSE ts[1] \o <<",">> \o JoinTexts(Tail(ts))

TextOf(v) ==
    CASE v.k = "num" -> NumText(v.n)
      [] v.k = "str" -> <<"\"">> \o v.s \o <<"\"">>
      [] v.k = "null" -> <<"n", "u", "l", "l">>
      [] v.k = "bool" -> IF v.b THEN <<"t", "r", "u", "e">> ELSE <<"f", "a", "l", "s", "e">>
      [] v.k = "arr" ->
            <<"[">> \o JoinTexts([i \in 1..Len(v.a) |-> TextOf(v.a[i])]) \o <<"]">>
      [] v.k = "obj" ->
            LET keys == SortedAsc(DOMAIN v.o)
            IN  <<"{">>
                \o JoinTexts([i \in 1..Len(keys) |->
                       <<"\"">> \o keys[i] \o <<"\"">> \o <<":">> \o TextOf(v.o[keys[i]])])
                \o <<"}">>

\* a text inside the fence the prompt's answer usually comes in
Fenced(t) == FenceOpen \o <<"\n">> \o t \o <<"\n">> \o FenceClose

\* response.text of the external model, app.py:87-90 and 154-156
Replies ==
    {Fenced(TextOf(m)) : m \in Meals}
    \cup { TextOf(GoodMeal),
           <<" ">> \o Fenced(TextOf(GoodMeal)) \o <<"\n">>,
           FenceOpen \o TextOf(PartialMeal),
           FenceClose \o <<"\n">> \o TextOf(GoodMeal) \o <<"\n">> \o FenceClose,
           Fenced(TextOf(Arr(<<AppleItem>>))),
           Fenced(<<"n", "u", "l", "l">>),
           Fenced(<<"S", "o", "r", "r", "y">>),
           Fenced(SubSeq(TextOf(GoodMeal), 1, 30)),
           TextOf(GoodMeal) \o <<" ", "o", "k">>,
           FenceOpen \o FenceClose,
           <<>> }

\* app.py:90-96 (156-162): strip, drop the fence, strip, json.loads
Decode(raw) == JsonLoads(ExtractText(raw))

\* Decode of every reply, evaluated once
Decoded == [r \in Replies |-> Decode(r)]

\* Stamp with a failed parse swallowed into an empty result
StampLenient(parsed, filename, meal_type) ==
    LET got == IF parsed.ok /\ IsObj(parsed.val) THEN parsed.val ELSE Obj(EmptyMap)
    IN  [ok  |-> TRUE,
         val |-> DictSet(DictSet(DictSet(got,
                    K_image_path, Str(url_for(filename))),
                    K_meal_type, meal_type),
                    K_timestamp, Str(NowIso))]

\* Stamp with a check that items and the five totals are present
StampChecked(parsed, filename, meal_type) ==
    IF ~parsed.ok THEN [ok |-> FALSE, cause |-> "JSONDecodeError"]
    ELSE IF ~IsObj(parsed.val) THEN [ok |-> FALSE, cause |-> "TypeError"]
    ELSE IF ~({K_items, K_total_calories, K_total_protein, K_total_carbs,
               K_total_fat, K_total_fiber} \subseteq DOMAIN parsed.val.o)
         THEN [ok |-> FALSE, cause |-> "KeyError"]
    ELSE [ok  |-> TRUE,
          val |-> DictSet(DictSet(DictSet(parsed.val,
                     K_image_path, Str(url_for(filename))),
                     K_meal_type, meal_type),
                     K_timestamp, Str(NowIso))]

\* the calories of the items of a result, summed
RECURSIVE ItemCalories(_)
ItemCalories(items) ==
    IF items = <<>> THEN 0
    ELSE NumOf(DictGet(Head(items), K_calories, Num(0))) + ItemCalories(Tail(items))

\* Stamp with total_calories recomputed from the items
StampRecomputed(parsed, filename, meal_type) ==
    IF ~parsed.ok THEN [ok |-> FALSE, cause |-> "JSONDecodeError"]
    ELSE IF ~IsObj(parsed.val) THEN [ok |-> FALSE, cause |-> "TypeError"]
    ELSE LET fixed == IF K_items \in DOMAIN parsed.val.o /\ parsed.val.o[K_items].k = "arr"
                      THEN DictSet(parsed.val, K_total_calories,
                                   Num(ItemCalories(parsed.val.o[K_items].a)))
                      ELSE parsed.val
         IN  [ok  |-> TRUE,
              val |-> DictSet(DictSet(DictSet(fixed,
                         K_image_path, Str(url_for(filename))),
                         K_meal_type, meal_type),
                         K_timestamp, Str(NowIso))]

\* app.py:96-99 (162-165): the value json.loads returned, stamped; item
\* assignment raises TypeError on anything but a dict
Stamp(parsed, filename, meal_type) ==
    IF ~parsed.ok THEN [ok |-> FALSE, cause |-> "JSONDecodeError"]
    ELSE IF ~IsObj(parsed.val) THEN [ok |-> FALSE, cause |-> "TypeError"]
    ELSE [ok  |-> TRUE,
          val |-> DictSet(DictSet(DictSet(parsed.val,
                     K_image_path, Str(url_for(filename))),
                     K_meal_type, meal_type),
                     K_timestamp, Str(NowIso))]

NoReply == [got |-> FALSE]

\* request.form.get('meal_type', 'snack'), app.py:49 and 113
MealTypeOf(mt) == IF mt = Absent THEN Str(T_snack) ELSE mt

\* StoreAfterAnalysis with a returned result also filed under 2024-01-01
StoreAutoSaved(store, resp) ==
    IF resp.status = 200
    THEN LET s1 == IF D0101 \in DOMAIN store THEN store ELSE CreateRecord(store, D0101)
         IN  [s1 EXCEPT ![D0101].meals = Append(@, resp.body)]
    ELSE store

\* calorie_data after an analysis call that answered resp: no statement of
\* app.py:43-170 names calorie_data
StoreAfterAnalysis(store, resp) == store

\* what the model call gave: an exception or a text
ModelOutcomes == {[ok |-> FALSE]} \cup {[ok |-> TRUE, text |-> r] : r \in Replies}

\* app.py:59-104 (124-170), the try block: Image.open, generate_content,
\* extraction, stamping; every exception becomes a 500
TryAnalysis(op, filename, mt, open_ok, gen) ==
    IF ~open_ok
    THEN [reply |-> NoReply, result |-> Fail,
          resp |-> [op |-> op, status |-> 500, body |-> [error |-> "open"]]]
    ELSE IF ~gen.ok
    THEN [reply |-> NoReply, result |-> Fail,
          resp |-> [op |-> op, status |-> 500, body |-> [error |-> "model"]]]
    ELSE LET parsed == Decoded[gen.text]
             st == Stamp(parsed, filename, MealTypeOf(mt))
         IN  [reply  |-> [got |-> TRUE, text |-> gen.text, file |-> filename,
                          asked |-> mt],
              result |-> parsed,
              resp   |-> IF st.ok
                         THEN [op |-> op, status |-> 200, body |-> st.val]
                         ELSE [op |-> op, status |-> 500, body |-> [error |-> st.cause]]]

StoreIdle == UNCHANGED <<saved, threads, dictId, overlapped, probe>>

\* an early return, before the try block
Refuse(op, status, why) ==
    /\ http' = [op |-> op, status |-> status, body |-> [error |-> why]]
    /\ calorie_data' = StoreAfterAnalysis(calorie_data, http')
    /\ reply' = NoReply
    /\ result' = Fail

\* what the try block meets: Image.open raising, generate_content raising,
\* or a reply
Outcomes ==
    {[open_ok |-> FALSE, gen |-> [ok |-> FALSE]]}
        \cup {[open_ok |-> TRUE, gen |-> g] : g \in ModelOutcomes}

\* the names app.py:54 lets through, with the name each is stored under
AllowedUploads == {<<n, StoredName(n)>> : n \in {u \in UploadNames : u # <<>> /\ allowed_file(u)}}

\* POST /analyze, app.py:43-106
AnalyzeFood ==
    /\ \/ \* app.py:45
          /\ Refuse("analyze", 400, "No image provided")
          /\ UNCHANGED uploads
       \/ \* app.py:51
          /\ <<>> \in UploadNames
          /\ Refuse("analyze", 400, "No selected file")
          /\ UNCHANGED uploads
       \/ \* app.py:106
          /\ \E name \in UploadNames : name # <<>> /\ ~allowed_file(name)
          /\ Refuse("analyze", 400, "Invalid file type")
          /\ UNCHANGED uploads
       \/ \* app.py:54-104
          \E up \in AllowedUploads, mt \in MealTypes, out \in Outcomes :
             LET filename == up[2]
                 a == TryAnalysis("analyze", filename, mt, out.open_ok, out.gen)
             IN  /\ uploads' = uploads \cup {filename}
                 /\ reply' = a.reply
                 /\ result' = a.result
                 /\ http' = a.resp
                 /\ calorie_data' = StoreAfterAnalysis(calorie_data, a.resp)
    /\ StoreIdle

\* the bodies posted to /reanalyze: image_path absent, empty, the URL of the
\* upload, the URL of a file never uploaded, the upload folder itself
ImagePaths ==
    { Absent, Str(<<>>),
      Str(url_for(StoredName(<<"b", "/", "c", ".", "P", "N", "G">>))),
      Str(url_for(<<"x", ".", "p", "n", "g">>)),
      Str(<<"u", "p", "l", "o", "a", "d", "s", "/">>) }

\* os.path.basename of each image_path
Basenames == [ip \in ImagePaths \ {Absent} |-> AfterLast(ip.s, "/")]

\* os.path.exists(os.path.join(UPLOAD_FOLDER, filename)); an empty filename
\* names the folder
path_exists(files, filename) == filename = <<>> \/ filename \in files

\* POST /reanalyze, app.py:108-170
ReanalyzeFood ==
    /\ \/ \* app.py:111: request.json is a JSON array, data.get raises
          \* AttributeError
          Refuse("reanalyze", 500, "AttributeError")
       \/ \* app.py:115
          /\ \E ip \in ImagePaths : ip \in {Absent, Str(<<>>)}
          /\ Refuse("reanalyze", 400, "No image path provided")
       \/ \* app.py:121
          /\ \E ip \in ImagePaths \ {Absent, Str(<<>>)} :
               ~path_exists(uploads, Basenames[ip])
          /\ Refuse("reanalyze", 404, "Image not found")
       \/ \* app.py:124-170
          \E ip \in ImagePaths \ {Absent, Str(<<>>)} :
             /\ path_exists(uploads, Basenames[ip])
             /\ \E mt \in MealTypes, out \in Outcomes :
                  \* Image.open raises on the folder
                  /\ Basenames[ip] = <<>> => ~out.open_ok
                  /\ LET a == TryAnalysis("reanalyze", Basenames[ip], mt,
                                          out.open_ok, out.gen)
                     IN  /\ reply' = a.reply
                         /\ result' = a.result
                         /\ http' = a.resp
                         /\ calorie_data' = StoreAfterAnalysis(calorie_data, a.resp)
    /\ UNCHANGED uploads
    /\ StoreIdle

---------------------------------------------------------------------------
(* The extractor on drawn texts *)

\* the characters of the drawn JSON texts
JsonChars == {"[", "]", "1", "\"", BQ, "\n"}

\* every text of at most MaxJsonLen of these characters that json.loads accepts
ValidJsonTexts ==
    {t \in UNION {[1..n -> JsonChars] : n \in 0..MaxJsonLen} : JsonLoads(t).ok}

\* the whitespace before the fence, after its opening, before its closing,
\* and after the fence
Paddings == {<<>>, <<" ">>} \X {<<>>, <<"\n">>} \X {<<>>, <<"\n", " ">>} \X {<<>>, <<"\n">>}

Wrap(j, w) == w[1] \o FenceOpen \o w[2] \o j \o w[3] \o FenceClose \o w[4]

ExtractInit ==
    /\ calorie_data = EmptyMap
    /\ uploads = {}
    /\ reply = NoReply
    /\ result = Fail
    /\ http = [op |-> "none"]
    /\ saved = EmptyMap
    /\ threads = <<>>
    /\ dictId = EmptyMap
    /\ overlapped = FALSE
    /\ probe \in {[pc |-> "in", j |-> j, raw |-> Wrap(j, w)] :
                    j \in ValidJsonTexts, w \in Paddings}

\* app.py:90-96 on the drawn text
ExtractStep ==
    /\ probe.pc = "in"
    /\ probe' = [pc |-> "out", j |-> probe.j, raw |-> probe.raw,
                 text |-> ExtractText(probe.raw),
                 parsed |-> JsonLoads(ExtractText(probe.raw))]
    /\ UNCHANGED <<calorie_data, uploads, reply, result, http, saved, threads,
                   dictId, overlapped>>

ExtractSpec == ExtractInit /\ [][ExtractStep]_vars

---------------------------------------------------------------------------
(* save_meal on a threaded server: app.run serves each request on its own  *)
(* thread, and a thread switch may fall between any two of the steps below *)

Workers == {"w1", "w2"}

\* the bodies the two workers are given: numeric results dated 2024-01-01
ThreadedBodies == {DictSet(m, K_date, Str(D0101)) : m \in {GoodMeal, PartialMeal}}

IdleWorker == [pc |-> "idle"]

ThreadedInit ==
    /\ calorie_data = EmptyMap
    /\ uploads = {}
    /\ reply = NoReply
    /\ result = Fail
    /\ http = [op |-> "none"]
    /\ saved = EmptyMap
    /\ threads = [w \in Workers |-> IdleWorker]
    /\ dictId = EmptyMap
    /\ overlapped = FALSE
    /\ probe = [pc |-> "off"]

Busy(w) == threads[w].pc # "idle"

\* saves started so far: the appended ones and those not yet at the append
Started ==
    MealCountOf(saved) + Cardinality({w \in Workers : threads[w].pc \in {"check", "create", "load", "append"}})

ThreadedIdle == UNCHANGED <<uploads, reply, result, http, probe>>

\* app.py:174-175: the request is read
Begin(w) ==
    /\ ~Busy(w)
    /\ Started < MaxThreadedSaves
    /\ \E data \in ThreadedBodies :
         threads' = [threads EXCEPT ![w] =
                        [pc |-> "check", data |-> data,
                         date |-> RequestDate(data, D0101)]]
    /\ overlapped' = (overlapped \/ \E v \in Workers \ {w} : Busy(v))
    /\ UNCHANGED <<calorie_data, saved, dictId>>
    /\ ThreadedIdle

\* app.py:177
CheckAbsent(w) ==
    /\ threads[w].pc = "check"
    /\ threads' = [threads EXCEPT ![w].pc =
                      IF threads[w].date \notin DOMAIN calorie_data
                      THEN "create" ELSE "load"]
    /\ UNCHANGED <<calorie_data, saved, dictId, overlapped>>
    /\ ThreadedIdle

\* app.py:178-185: a new dict is bound to the date
Create(w) ==
    /\ threads[w].pc = "create"
    /\ calorie_data' = CreateRecord(calorie_data, threads[w].date)
    /\ dictId' = (threads[w].date :>
                    (IF threads[w].date \in DOMAIN dictId
                     THEN dictId[threads[w].date] + 1 ELSE 1)) @@ dictId
    /\ threads' = [threads EXCEPT ![w].pc = "load"]
    /\ UNCHANGED <<saved, overlapped>>
    /\ ThreadedIdle

\* app.py:187, calorie_data[date]['meals'] is evaluated
LoadMeals(w) ==
    /\ threads[w].pc = "load"
    /\ threads' = [threads EXCEPT ![w] =
                      [pc |-> "append", data |-> @.data, date |-> @.date,
                       ref |-> dictId[@.date]]]
    /\ UNCHANGED <<calorie_data, saved, dictId, overlapped>>
    /\ ThreadedIdle

\* app.py:187, .append(data) on the list that was loaded: the store sees it
\* only if that list's dict is still the one bound to the date
AppendStep(w) ==
    /\ threads[w].pc = "append"
    /\ LET t == threads[w] IN
       /\ calorie_data' =
            IF t.ref = dictId[t.date]
            THEN [calorie_data EXCEPT ![t.date].meals = AppendMeal(@, t.data)]
            ELSE calorie_data
       /\ saved' = Remember(saved, t.date, t.data)
       /\ threads' = [threads EXCEPT ![w] =
                         [pc |-> "read", data |-> t.data, date |-> t.date, i |-> 1]]
    /\ UNCHANGED <<dictId, overlapped>>
    /\ ThreadedIdle

\* app.py:188-192, the i-th  +=  reads its dict, the total and the addend;
\* a TypeError ends the handler
ReadStep(w) ==
    /\ threads[w].pc = "read"
    /\ LET t == threads[w]
           f == TotalFields[t.i]
       IN  threads' = [threads EXCEPT ![w] =
              IF CanAdd(Addend(t.data, f))
              THEN [pc |-> "write", data |-> t.data, date |-> t.date, i |-> t.i,
                    ref |-> dictId[t.date],
                    tmp |-> ReadTotal(calorie_data[t.date], f)]
              ELSE IdleWorker]
    /\ UNCHANGED <<calorie_data, saved, dictId, overlapped>>
    /\ ThreadedIdle

\* app.py:188-192, the i-th  +=  stores into the dict it read; after the
\* fifth the handler returns
WriteStep(w) ==
    /\ threads[w].pc = "write"
    /\ LET t == threads[w]
           f == TotalFields[t.i]
       IN  /\ calorie_data' =
                IF t.ref = dictId[t.date]
                THEN [calorie_data EXCEPT ![t.date][f] =
                         AddedTotal(t.tmp, Addend(t.data, f))]
                ELSE calorie_data
           /\ threads' = [threads EXCEPT ![w] =
                IF t.i = Len(TotalFields) THEN IdleWorker
                ELSE [pc |-> "read", data |-> t.data, date |-> t.date, i |-> t.i + 1]]
    /\ UNCHANGED <<saved, dictId, overlapped>>
    /\ ThreadedIdle

ThreadedNext ==
    \E w \in Workers :
        \/ Begin(w)
        \/ CheckAbsent(w)
        \/ Create(w)
        \/ LoadMeals(w)
        \/ AppendStep(w)
        \/ ReadStep(w)
        \/ WriteStep(w)

ThreadedSpec == ThreadedInit /\ [][ThreadedNext]_vars

---------------------------------------------------------------------------
(* Specifications *)

Init ==
    /\ calorie_data = EmptyMap
    /\ uploads = {}
    /\ reply = NoReply
    /\ result = Fail
    /\ http = [op |-> "none"]
    /\ saved = EmptyMap
    /\ threads = <<>>
    /\ dictId = EmptyMap
    /\ overlapped = FALSE
    /\ probe = [pc |-> "off"]

StoreSaveMeal == SaveMealOf(MaxStoreSaves, SaveBodies)

\* the store handlers alone, one request at a time
StoreNext ==
    \/ StoreSaveMeal
    \/ GetDailyData
    \/ GetAllDates

StoreSpec == Init /\ [][StoreNext]_vars

\* the bodies posted to /save_meal beside the analyses: two results dated
\* 2024-01-01, or a JSON array
DatedBodies ==
    {DictSet(m, K_date, Str(D0101)) : m \in {GoodMeal, StringMeal}} \cup {Arr(<<>>)}

SaveMeal == SaveMealOf(MaxSaves, DatedBodies)

\* the whole server, one request at a time
Next ==
    \/ AnalyzeFood
    \/ ReanalyzeFood
    \/ SaveMeal
    \/ GetDailyData
    \/ GetAllDates

Spec == Init /\ [][Next]_vars

---------------------------------------------------------------------------
(* Claims about the daily store, under StoreSpec *)

\* what a meal contributes to a total: the field's number, nothing when the
\* field is absent or is no number
FieldOf(meal, f) ==
    LET v == DictGet(meal, FieldKey(f), Num(0)) IN IF CanAdd(v) THEN NumOf(v) ELSE 0

RECURSIVE SumField(_, _)
SumField(meals, f) ==
    IF meals = <<>> THEN 0
    ELSE FieldOf(Head(meals), f) + SumField(Tail(meals), f)

FieldSet == {TotalFields[i] : i \in 1..Len(TotalFields)}

\* C1: every stored record's five totals each equal the sum of that field
\* over the record's meals.
C1_TotalsEqualSums ==
    \A d \in DOMAIN calorie_data : \A f \in FieldSet :
        calorie_data[d][f] = SumField(calorie_data[d].meals, f)

IsPrefix(a, b) == Len(a) <= Len(b) /\ SubSeq(b, 1, Len(a)) = a

C2_MealsAreTheSaves ==
    /\ DOMAIN calorie_data = DOMAIN saved
    /\ \A d \in DOMAIN calorie_data : calorie_data[d].meals = saved[d]

C2_AppendOnly ==
    /\ DOMAIN calorie_data \subseteq DOMAIN calorie_data'
    /\ \A d \in DOMAIN calorie_data :
         IsPrefix(calorie_data[d].meals, calorie_data'[d].meals)
    /\ \A d \in DOMAIN calorie_data' \ DOMAIN calorie_data :
         /\ Len(calorie_data'[d].meals) = 1
         /\ \A f \in FieldSet :
              calorie_data'[d][f] \in {0, FieldOf(calorie_data'[d].meals[1], f)}

\* C2: the meals of the record for a date are exactly the bodies saved with
\* that date, in call order; a save of an absent date creates the record from
\* empty meals and zero totals; no step removes or reorders a meal or removes
\* a date.
C2_MealsInCallOrder == [](C2_MealsAreTheSaves) /\ [][C2_AppendOnly]_vars

\* two saves of different results on one date, the first one first
C2_TwoSavesSameDate ==
    /\ D0101 \in DOMAIN calorie_data
    /\ calorie_data[D0101].meals =
         <<DictSet(GoodMeal, K_date, Str(D0101)), DictSet(PartialMeal, K_date, Str(D0101))>>
    /\ calorie_data[D0101].total_calories = 12

Elems(seq) == {seq[i] : i \in 1..Len(seq)}

C3_GetStep ==
    http'.op = "get_daily_data" =>
        /\ calorie_data' = calorie_data
        /\ DOMAIN calorie_data' = DOMAIN calorie_data
        /\ http'.arg \notin DOMAIN calorie_data =>
             /\ http'.body.meals = <<>>
             /\ \A f \in FieldSet : http'.body[f] = 0
             /\ http'.arg \notin Elems(SortedReverse(DOMAIN calorie_data'))

\* C3: get(date) never changes the store; for a date never saved it returns
\* empty meals and five zero totals, and the dates listed afterwards do not
\* contain that date.
C3_GetIsReadOnly == [][C3_GetStep]_vars

\* a get of a date never saved, answered from a store that holds other dates
C3_GetOfUnsavedDate ==
    /\ http.op = "get_daily_data"
    /\ http.arg \notin DOMAIN calorie_data
    /\ calorie_data # EmptyMap

\* C4: listDates returns exactly the dates with at least one save, each
\* once, in strictly descending lexicographic order.
C4_DatesDescending ==
    http.op = "get_all_dates" =>
        /\ Elems(http.body) = {d \in Dates : d \in DOMAIN saved /\ Len(saved[d]) >= 1}
        /\ Len(http.body) = Cardinality(Elems(http.body))
        /\ \A i \in 1..Len(http.body) : \A j \in 1..Len(http.body) :
             i < j => TextLess(http.body[j], http.body[i])

\* the spec's example: saves for 01-01, 03-15, 02-10, then the list
C4_ThreeDatesListed ==
    /\ http.op = "get_all_dates"
    /\ http.body = <<D0315, D0210, D0101>>

---------------------------------------------------------------------------
(* Claims about analyze and reanalyze, under Spec *)

Analysed == http.op \in {"analyze", "reanalyze"} /\ reply.got

\* C6: a reply that is not JSON after fence stripping ends the call in an
\* error response (not 200, an error message) and no result is returned.
C6_MalformedReplyFails ==
    (Analysed /\ ~Decoded[reply.text].ok) =>
        /\ http.status # 200
        /\ DOMAIN http.body = {"error"}

\* a fence without the json tag around a valid object: an error response
C6_BareFenceRefused ==
    /\ Analysed
    /\ reply.text = FenceClose \o <<"\n">> \o TextOf(GoodMeal) \o <<"\n">> \o FenceClose
    /\ http.status = 500

RequiredKeys ==
    {K_items, K_total_calories, K_total_protein, K_total_carbs, K_total_fat, K_total_fiber}

MetaKeys == {K_image_path, K_meal_type, K_timestamp}

ParsedObject == Analysed /\ Decoded[reply.text].ok /\ IsObj(Decoded[reply.text].val)

C8_PassThrough ==
    (http.op \in {"analyze", "reanalyze"} /\ http.status = 200) =>
        /\ ParsedObject
        /\ DOMAIN http.body.o = DOMAIN Decoded[reply.text].val.o \cup MetaKeys
        /\ \A key \in DOMAIN Decoded[reply.text].val.o \ MetaKeys :
             http.body.o[key] = Decoded[reply.text].val.o[key]
        /\ http.body.o[K_image_path] = Str(UrlRoot \o reply.file)
        /\ http.body.o[K_meal_type] =
             (IF reply.asked = Absent THEN Str(T_snack) ELSE reply.asked)
        /\ http.body.o[K_timestamp] = Str(NowIso)

\* a result whose total_calories (5) is not the sum of its items' calories (9)
C8_MismatchedTotalsReturned ==
    /\ http.op \in {"analyze", "reanalyze"}
    /\ http.status = 200
    /\ http.body.o[K_total_calories] = Num(5)
    /\ K_items \in DOMAIN http.body.o
    /\ http.body.o[K_items] = Arr(<<AppleItem>>)
    /\ AppleItem.o[K_calories] = Num(9)

C9_AnalysisStep ==
    /\ http'.op \in {"analyze", "reanalyze"} => calorie_data' = calorie_data
    /\ calorie_data' # calorie_data => http'.op = "save_meal"

\* C9: an analysis call leaves the store as it was on every path, and only
\* save changes the store.
C9_AnalysisLeavesStore == [][C9_AnalysisStep]_vars

\* an analysis call that failed on a malformed reply, over a store that
\* holds a record
C9_AnalysedOverStore ==
    /\ Analysed
    /\ http.status = 500
    /\ calorie_data # EmptyMap

---------------------------------------------------------------------------
(* Claim about the extractor, under ExtractSpec *)

\* C5: a valid JSON text wrapped in the json fence, with whitespace around the
\* fence and inside it, is extracted to a text that parses to the same value.
C5_FenceRoundTrip ==
    probe.pc = "out" =>
        /\ probe.parsed.ok
        /\ probe.parsed.val = JsonLoads(probe.j).val

\* a fenced array with whitespace on every side, extracted and parsed
C5_FencedArrayExtracted ==
    /\ probe.pc = "out"
    /\ probe.j = <<"[", "1", "]">>
    /\ probe.raw = <<" ">> \o FenceOpen \o <<"\n", "[", "1", "]", "\n", " ">>
                     \o FenceClose \o <<"\n">>
    /\ probe.parsed.val = Arr(<<Num(1)>>)

---------------------------------------------------------------------------
(* Claim about concurrent saves, under ThreadedSpec *)

AllIdle == \A w \in Workers : ~Busy(w)

Count(seq, x) == Cardinality({i \in 1..Len(seq) : seq[i] = x})

\* a meal appended for the date is missing from its record
MealLost(d) ==
    \/ d \notin DOMAIN calorie_data
    \/ Len(calorie_data[d].meals) # Len(saved[d])
    \/ \E x \in Elems(saved[d]) : Count(calorie_data[d].meals, x) # Count(saved[d], x)

\* a total of the record is not the sum over the meals appended for the date
TotalLost(d) ==
    /\ d \in DOMAIN calorie_data
    /\ \E f \in FieldSet : calorie_data[d][f] # SumField(saved[d], f)

\* C10: saves that interleave step by step can lose an update (a meal or a
\* part of a total), and nothing in save_meal prevents it: every loss comes
\* from two calls in flight together, and such a loss is reachable.
C10_LossOnlyByInterleaving ==
    (AllIdle /\ \E d \in DOMAIN saved : MealLost(d) \/ TotalLost(d)) => overlapped

\* two saves for one date have returned; the record holds one meal and totals
\* that are not the sums over both
C10_UpdateLost ==
    /\ AllIdle
    /\ overlapped
    /\ D0101 \in DOMAIN saved
    /\ Len(saved[D0101]) = 2
    /\ MealLost(D0101)
    /\ TotalLost(D0101)
====
